---- MODULE Spec2Model ----
(***************************************************************************)
(* A state-machine model of rl_exercises/week_4/dqn.py: the DQNAgent with  *)
(* its online and target Q-networks, optimizer, replay buffer, exploration *)
(* schedule, persistence and the frame-driven training loop.               *)
(*                                                                         *)
(* Network parameters are abstract identifiers (Params); the network      *)
(* forward pass is the table QVal.  Real-valued quantities are kept exact: *)
(* epsilon in units of 1/EpsScale, gamma in units of 1/GammaScale, means   *)
(* as reduced fractions.                                                   *)
(***************************************************************************)
EXTENDS Integers, Sequences, FiniteSets, TLC

VARIABLES
    batch_size, target_update_freq, buffer_capacity, gamma,   \* hyperparameters
    q, target_q, optimizer, total_steps, buffer,              \* agent state
    frame_history, mean_reward_history,
    disk,                                                     \* the checkpoint file
    pc,                                                       \* position of the running call
    num_frames, eval_interval, frame, state, action,          \* locals of train
    ep_reward, recent_rewards, done, truncated,
    env_over, n_step, n_add, entry,                           \* environment / call accounting
    inserted,                                                 \* what the running train call has stored so far
    call,                                                     \* last predict_action / save / load call
    batch, target                                             \* locals of update_agent

hyper == <<batch_size, target_update_freq, buffer_capacity, gamma>>
agent == <<q, target_q, optimizer, total_steps, buffer, frame_history,
           mean_reward_history>>
locals == <<num_frames, eval_interval, frame, state, action, ep_reward,
            recent_rewards, done, truncated>>
account == <<env_over, n_step, n_add, entry, inserted>>
upd == <<batch, target>>
vars == <<hyper, agent, disk, pc, locals, account, call, upd>>

----------------------------------------------------------------------------
(* Bounds of the model *)
MaxBatch == 2        \* batch_size in 1..MaxBatch
MaxFreq == 2         \* target_update_freq in 1..MaxFreq
MaxCap == 2          \* buffer_capacity in 1..MaxCap
MaxFrames == 2       \* num_frames in 0..MaxFrames; cap on the frames of one agent
MaxInterval == 2     \* eval_interval in 1..MaxInterval
MaxSteps == 3        \* cap on the optimizer steps of one agent

(* Value domains: two parameter vectors, observations, actions, rewards *)
Params == {0, 1}
States == {0, 1}
Actions == {0, 1}
Rewards == {0, 1}

(* Fixed-point units *)
EpsScale == 4        \* epsilon is kept in quarters
GammaScale == 100    \* gamma is kept in hundredths
epsilon_start == 4   \* 1.0
epsilon_final == 1   \* 0.25, the floor of the schedule
GammaDefault == 99   \* 0.99

Transitions ==
    [state : States, action : Actions, reward : Rewards,
     next_state : States, done : BOOLEAN]

NoFile == [parameters |-> -1, optimizer |-> -1]
NoCall == [op |-> "none", state |-> -1, evaluate |-> FALSE, action |-> -1]
SaveCall == [op |-> "save", state |-> -1, evaluate |-> FALSE, action |-> -1]
LoadCall == [op |-> "load", state |-> -1, evaluate |-> FALSE, action |-> -1]
RaiseCall == [op |-> "raise", state |-> -1, evaluate |-> FALSE, action |-> -1]
NoEntry == [hist |-> -1, steps |-> -1, buf |-> -1, n_step |-> -1, n_add |-> -1]

----------------------------------------------------------------------------
(* Arithmetic helpers *)
RECURSIVE Sum(_)
Sum(s) == IF s = <<>> THEN 0 ELSE Head(s) + Sum(Tail(s))

RECURSIVE Pow2(_)
Pow2(n) == IF n = 0 THEN 1 ELSE 2 * Pow2(n - 1)

RECURSIVE Gcd(_, _)
Gcd(a, b) == IF b = 0 THEN a ELSE Gcd(b, a % b)

Max2(a, b) == IF a >= b THEN a ELSE b

\* recent_rewards[-k:] for k >= 1
LastK(s, k) == SubSeq(s, Max2(1, Len(s) - k + 1), Len(s))

\* float(np.mean(s)) of a non-empty list, as a reduced fraction
Mean(s) ==
    LET n == Sum(s)
        g == Gcd(Len(s), n)
    IN  [num |-> n \div g, den |-> Len(s) \div g]

Zero == [num |-> 0, den |-> 1]

----------------------------------------------------------------------------
(* Collaborators: QNetwork and ReplayBuffer *)

\* QNetwork forward pass: the value of action a in observation s under
\* parameters p
QVal(p, s, a) == ((p + 1) * (a + 1) + (s + 1) * (p + a)) % 3

\* qvals.argmax(dim=1): the first index of a maximal value
ArgMax(p, s) ==
    CHOOSE a \in Actions :
        /\ \A b \in Actions : QVal(p, s, b) <= QVal(p, s, a)
        /\ \A b \in Actions : QVal(p, s, b) = QVal(p, s, a) => a <= b

\* target_q(s_next).max(dim=1)[0]
MaxQ(p, s) == QVal(p, s, ArgMax(p, s))

\* The environment: observation 0 opens an episode, observation 1 follows
\* every step; rewards and episode ends are free
EnvReset == 0

EnvNext(s) == 1

\* ReplayBuffer.add: ring of at most cap transitions, oldest evicted first
BufferAdd(buf, cap, t) ==
    IF Len(buf) >= cap THEN Append(Tail(buf), t) ELSE Append(buf, t)

\* ReplayBuffer.sample(n): n draws with replacement from the contents
BufferSample(buf, n) == [1..n -> {buf[i] : i \in 1..Len(buf)}]

----------------------------------------------------------------------------
(* DQNAgent *)

\* DQNAgent.__init__: both networks hold the seeded initial parameters, the
\* optimizer and the buffer are empty, the counters are zero
InitParam == 0

FreshAgent(online, frozen, opt, steps, buf, fh, mh) ==
    /\ online = InitParam
    /\ frozen = online
    /\ opt = 0
    /\ steps = 0
    /\ buf = <<>>
    /\ fh = <<>>
    /\ mh = <<>>

\* no call is running: the locals of train and update_agent do not exist
Idle(p, nf, ei, f, s, a, er, rr, d, t, eo, en, c, b, tg) ==
    /\ p = "idle"
    /\ nf = 0 /\ ei = 0 /\ f = 0
    /\ s = 0 /\ a = 0 /\ er = 0 /\ rr = <<>>
    /\ d = FALSE /\ t = FALSE
    /\ eo = FALSE /\ en = NoEntry
    /\ c = NoCall
    /\ b = <<>> /\ tg = <<>>

Init ==
    /\ batch_size \in 1..MaxBatch
    /\ target_update_freq \in 1..MaxFreq
    /\ buffer_capacity \in 1..MaxCap
    /\ gamma = GammaDefault
    /\ FreshAgent(q, target_q, optimizer, total_steps, buffer, frame_history,
                  mean_reward_history)
    /\ disk = NoFile
    /\ Idle(pc, num_frames, eval_interval, frame, state, action, ep_reward,
            recent_rewards, done, truncated, env_over, entry, call, batch,
            target)
    /\ n_step = 0
    /\ n_add = 0
    /\ inserted = <<>>

\* a schedule with the sign of the exponent flipped: exp(+t / decay)
EpsilonBug(t) == epsilon_final + ((epsilon_start - epsilon_final) * Pow2(t))

\* DQNAgent.epsilon, in units of 1/EpsScale, for a decay constant that
\* halves the exponential at every step
Epsilon(t) == epsilon_final + ((epsilon_start - epsilon_final) \div Pow2(t))

\* the greedy branch of predict_action
Greedy(p, s) == ArgMax(p, s)

\* a selector that explores in evaluation mode too
SelectActionBug(s, evaluate, u, rnd) ==
    IF u < Epsilon(total_steps) THEN rnd ELSE Greedy(q, s)

\* DQNAgent.predict_action: u is the np.random.rand() draw (in 1/EpsScale),
\* rnd the env.action_space.sample() draw
SelectAction(s, evaluate, u, rnd) ==
    IF evaluate
    THEN Greedy(q, s)
    ELSE IF u < Epsilon(total_steps) THEN rnd ELSE Greedy(q, s)

\* a selector that counts its calls in total_steps
PredictFrameBug ==
    /\ total_steps' = total_steps + 1
    /\ UNCHANGED <<hyper, q, target_q, optimizer, buffer, frame_history,
                   mean_reward_history, disk>>

\* the agent fields predict_action writes: none
PredictFrame == UNCHANGED <<hyper, agent, disk>>

\* the actions a call may return, over all draws
Selectable(s, evaluate) ==
    {SelectAction(s, evaluate, u, rnd) : u \in 0..(EpsScale - 1), rnd \in Actions}

PredictAction(s, evaluate) ==
    /\ pc = "idle"
    /\ \E a \in Selectable(s, evaluate) :
        call' = [op |-> "predict", state |-> s, evaluate |-> evaluate,
                 action |-> a]
    /\ PredictFrame
    /\ UNCHANGED <<pc, locals, account, upd>>

\* DQNAgent.save
Checkpoint == [parameters |-> q, optimizer |-> optimizer]

Save ==
    /\ pc = "idle"
    /\ disk' = Checkpoint
    /\ call' = SaveCall
    /\ UNCHANGED <<hyper, agent, pc, locals, account, upd>>

\* a load that restores the parameters only
RestoreBug(checkpoint) ==
    /\ q' = checkpoint.parameters
    /\ optimizer' = optimizer

\* DQNAgent.load: what the call restores from the checkpoint
Restore(checkpoint) ==
    /\ q' = checkpoint.parameters
    /\ optimizer' = checkpoint.optimizer

\* a load that also copies the restored parameters into the target network
LoadFrameBug ==
    /\ target_q' = q'
    /\ UNCHANGED <<total_steps, buffer, frame_history, mean_reward_history>>

\* the agent fields load does not write
LoadFrame ==
    UNCHANGED <<target_q, total_steps, buffer, frame_history,
                mean_reward_history>>

Load ==
    /\ pc = "idle"
    /\ disk # NoFile
    /\ Restore(disk)
    /\ LoadFrame
    /\ call' = LoadCall
    /\ UNCHANGED <<hyper, disk, pc, locals, account, upd>>

\* a second agent of the same architecture is constructed in place of the
\* first; the checkpoint file stays
Construct ==
    /\ pc = "idle"
    /\ FreshAgent(q', target_q', optimizer', total_steps', buffer',
                  frame_history', mean_reward_history')
    /\ n_step' = 0
    /\ n_add' = 0
    /\ call' = NoCall
    /\ UNCHANGED <<hyper, disk, pc, locals, env_over, entry, inserted, upd>>

----------------------------------------------------------------------------
(* The loop of train: its header and the order of its body *)

\* a loop that runs one frame too many
MoreFramesBug == frame <= num_frames

\* for frame in range(1, num_frames + 1): another frame follows
MoreFrames == frame < num_frames

\* a loop body that writes the checkpoint before it books the episode
FrameOrderBug == <<"select", "step", "learn", "eval", "episode">>

\* the statements of the loop body, in the order of the source: select the
\* action; step the environment and store; learn; book an ended episode;
\* write the checkpoint
FrameOrder == <<"select", "step", "learn", "episode", "eval">>

Position(p) == CHOOSE i \in 1..Len(FrameOrder) : FrameOrder[i] = p

\* where control goes after statement p: the next statement of the body,
\* or the loop header after the last one
After(p) ==
    IF Position(p) < Len(FrameOrder) THEN FrameOrder[Position(p) + 1]
    ELSE IF MoreFrames THEN "select" ELSE "complete"

FrameAfter(p) ==
    IF Position(p) = Len(FrameOrder) /\ MoreFrames THEN frame + 1 ELSE frame

----------------------------------------------------------------------------
(* update_agent *)

Mask(d) == IF d THEN 1 ELSE 0

\* a target that bootstraps through terminal transitions
TDTargetBug(b, tq, g) ==
    [i \in 1..Len(b) |->
        GammaScale * b[i].reward + g * MaxQ(tq, b[i].next_state)]

\* target = r + (1.0 - mask) * gamma * max_next_q, in units of 1/GammaScale
TDTarget(b, tq, g) ==
    [i \in 1..Len(b) |->
        GammaScale * b[i].reward
          + (1 - Mask(b[i].done)) * g * MaxQ(tq, b[i].next_state)]

\* pred = q(s).gather(1, a), in units of 1/GammaScale
Pred(b, p) == [i \in 1..Len(b) |-> GammaScale * QVal(p, b[i].state, b[i].action)]

\* the sum of squared errors behind nn.MSELoss
SquaredError(b, p, tq, g) ==
    LET t == TDTarget(b, tq, g)
        y == Pred(b, p)
    IN  Sum([i \in 1..Len(b) |-> (y[i] - t[i]) * (y[i] - t[i])])

\* loss = nn.MSELoss()(pred, target) is a number for the batch
LossDefined(b) == SquaredError(b, q, target_q, gamma) \in Nat

\* some batch of the set reaches the optimizer (a condition on the
\* current state only)
Trainable(batches) == (\E b \in batches : LossDefined(b)) = TRUE

\* an optimizer built over both networks' parameters
OptimizerStepBug ==
    /\ q' \in Params
    /\ optimizer' = optimizer + 1
    /\ target_q' = q'

\* optimizer.zero_grad(); loss.backward(); optimizer.step(): the online
\* parameters move (or stay, on a zero gradient); the target network is
\* not among the optimizer's parameters
OptimizerStep ==
    /\ q' \in Params
    /\ optimizer' = optimizer + 1
    /\ target_q' = target_q

\* the condition of the target sync, read before total_steps is incremented
SyncDue == total_steps % target_update_freq = 0

\* a tail that counts the step inside the branch of the sync
SyncAndCountBug ==
    /\ target_q' = IF SyncDue THEN q ELSE target_q
    /\ total_steps' = IF SyncDue THEN total_steps + 1 ELSE total_steps

\* the tail of update_agent: sync, then count the step
SyncAndCount ==
    /\ target_q' = IF SyncDue THEN q ELSE target_q
    /\ total_steps' = total_steps + 1

\* update_agent called by the user with a batch of its choice
UpdateAgent ==
    /\ pc = "idle"
    /\ optimizer < MaxSteps
    /\ total_steps < MaxSteps
    /\ (\E n \in 1..MaxBatch : Trainable([1..n -> Transitions])) = TRUE
    /\ OptimizerStep
    /\ pc' = "sync"
    /\ call' = NoCall
    /\ UNCHANGED <<hyper, total_steps, buffer, frame_history,
                   mean_reward_history, disk, locals, account, upd>>

\* update_agent on the batch at hand: the unpacked batch and the targets
\* stay in view until the call returns
UpdateBatch ==
    /\ pc = "idle"
    /\ batch # <<>>
    /\ target = <<>>
    /\ Trainable({batch})
    /\ target' = TDTarget(batch, target_q, gamma)
    /\ OptimizerStep
    /\ pc' = "sync"
    /\ UNCHANGED <<hyper, total_steps, buffer, frame_history,
                   mean_reward_history, disk, locals, account, call, batch>>

UpdateSync ==
    /\ pc = "sync"
    /\ SyncAndCount
    /\ pc' = IF frame > 0 THEN After("learn") ELSE "idle"
    /\ UNCHANGED <<hyper, q, optimizer, buffer, frame_history,
                   mean_reward_history, disk, locals, account, call, upd>>

----------------------------------------------------------------------------
(* train *)

\* state, _ = self.env.reset(); ep_reward = 0.0; recent_rewards = []
TrainStart(nf, ei) ==
    /\ pc = "idle"
    /\ num_frames' = nf
    /\ eval_interval' = ei
    /\ state' = EnvReset
    /\ env_over' = FALSE
    /\ ep_reward' = 0
    /\ recent_rewards' = <<>>
    /\ frame' = IF nf >= 1 THEN 1 ELSE 0
    /\ pc' = IF nf >= 1 THEN "select" ELSE "complete"
    /\ n_step + nf <= MaxFrames
    /\ optimizer + nf <= MaxSteps
    /\ total_steps + nf <= MaxSteps
    /\ entry' = [hist |-> Len(frame_history), steps |-> total_steps,
                 buf |-> Len(buffer), n_step |-> n_step, n_add |-> n_add]
    /\ call' = NoCall
    /\ inserted' = <<>>
    /\ UNCHANGED <<hyper, agent, disk, action, done, truncated, n_step,
                   n_add, upd>>

\* action = self.predict_action(state)
Select ==
    /\ pc = "select"
    /\ \E a \in Selectable(state, FALSE) :
        /\ action' = a
        /\ call' = [op |-> "predict", state |-> state, evaluate |-> FALSE,
                    action |-> a]
    /\ PredictFrame
    /\ pc' = After("select")
    /\ UNCHANGED <<num_frames, eval_interval, frame, state, ep_reward,
                   recent_rewards, done, truncated, account, upd>>

\* a transition that keeps the environment's done flag alone
StoredBug(s, a, r, ns, d, t) ==
    [state |-> s, action |-> a, reward |-> r, next_state |-> ns, done |-> d]

\* the transition train stores for one environment step
Stored(s, a, r, ns, d, t) ==
    [state |-> s, action |-> a, reward |-> r, next_state |-> ns,
     done |-> (d \/ t)]

\* a plain list in place of the ring: nothing is ever evicted
StoreBug(buf, t) == Append(buf, t)

\* self.buffer.add(...) on the ReplayBuffer(buffer_capacity) of __init__
Store(buf, t) == BufferAdd(buf, buffer_capacity, t)

\* env.step(action); buffer.add(...); state = next_state; ep_reward += reward
StepEnv ==
    /\ pc = "step"
    /\ \E ns \in {EnvNext(state)}, r \in Rewards, d \in BOOLEAN,
          t \in BOOLEAN :
        /\ buffer' = Store(buffer, Stored(state, action, r, ns, d, t))
        /\ inserted' = Append(inserted, Stored(state, action, r, ns, d, t))
        /\ state' = ns
        /\ ep_reward' = ep_reward + r
        /\ done' = d
        /\ truncated' = t
        /\ env_over' = (d \/ t)
    /\ n_step' = n_step + 1
    /\ n_add' = n_add + 1
    /\ pc' = After("step")
    /\ call' = NoCall
    /\ UNCHANGED <<hyper, q, target_q, optimizer, total_steps, frame_history,
                   mean_reward_history, disk, num_frames, eval_interval,
                   frame, action, recent_rewards, entry, upd>>

\* learning as soon as the buffer holds anything
ReadyBug == buffer # <<>>

\* if len(self.buffer) >= self.batch_size
Ready == Len(buffer) >= batch_size

\* batch = self.buffer.sample(self.batch_size); self.update_agent(batch)
Learn ==
    /\ pc = "learn"
    /\ IF Ready
       THEN /\ Trainable(BufferSample(buffer, batch_size))
            /\ OptimizerStep
            /\ pc' = "sync"
       ELSE /\ pc' = After("learn")
            /\ UNCHANGED <<q, target_q, optimizer>>
    /\ UNCHANGED <<hyper, total_steps, buffer, frame_history,
                   mean_reward_history, disk, locals, account, call, upd>>

\* an episode end that overlooks the time limit
EpisodeOverBug == done

\* if done or truncated
EpisodeOver == done \/ truncated

\* if done or truncated: reset the environment, book the episode
EpisodeEnd ==
    /\ pc = "episode"
    /\ IF EpisodeOver
       THEN /\ state' = EnvReset
            /\ env_over' = FALSE
            /\ recent_rewards' = Append(recent_rewards, ep_reward)
            /\ ep_reward' = 0
       ELSE UNCHANGED <<state, env_over, recent_rewards, ep_reward>>
    /\ pc' = After("episode")
    /\ frame' = FrameAfter("episode")
    /\ UNCHANGED <<hyper, agent, disk, num_frames, eval_interval, action,
                   done, truncated, n_step, n_add, entry, inserted, call,
                   upd>>

\* a mean over every completed episode of the call
MeanRewardBug(rr, ei) == IF rr # <<>> THEN Mean(rr) ELSE Zero

\* mean_r of the checkpoint
MeanReward(rr, ei) == IF rr # <<>> THEN Mean(LastK(rr, ei)) ELSE Zero

\* a checkpoint every eval_interval episodes instead of frames
CheckpointDueBug ==
    recent_rewards # <<>> /\ Len(recent_rewards) % eval_interval = 0

\* if frame % eval_interval == 0
CheckpointDue == frame % eval_interval = 0

\* a checkpoint that assigns the list instead of appending to it
CheckpointedBug(fh, f) == <<f>>

\* self.frame_history.append(frame)
Checkpointed(fh, f) == Append(fh, f)

\* the checkpoint of a frame, then the loop header
Evaluate ==
    /\ pc = "eval"
    /\ IF CheckpointDue
       THEN /\ frame_history' = Checkpointed(frame_history, frame)
            /\ mean_reward_history' =
                   Append(mean_reward_history,
                          MeanReward(recent_rewards, eval_interval))
       ELSE UNCHANGED <<frame_history, mean_reward_history>>
    /\ pc' = After("eval")
    /\ frame' = FrameAfter("eval")
    /\ UNCHANGED <<hyper, q, target_q, optimizer, total_steps, buffer, disk,
                   num_frames, eval_interval, state, action, ep_reward,
                   recent_rewards, done, truncated, account, call, upd>>

\* print("Training complete.") and return: the locals are gone
Complete ==
    /\ pc = "complete"
    /\ Idle(pc', num_frames', eval_interval', frame', state', action',
            ep_reward', recent_rewards', done', truncated', env_over',
            entry', call', batch', target')
    /\ inserted' = <<>>
    /\ UNCHANGED <<hyper, agent, disk, n_step, n_add>>

\* a loop that catches the error of a frame and carries on with the frame
OnErrorBug == "eval"

\* train has no try block: an exception leaves the loop and the call
OnError == "failed"

\* env.step, buffer.sample or update_agent (before or after its optimizer
\* step), or the env.reset of an ended episode, raises
Raise ==
    /\ \/ pc = "step"
       \/ pc = "learn" /\ Ready
       \/ pc = "sync" /\ frame > 0
       \/ pc = "episode" /\ EpisodeOver
    /\ pc' = OnError
    /\ call' = RaiseCall
    /\ UNCHANGED <<hyper, agent, disk, locals, account, upd>>

\* the exception reaches the caller of train: the locals are gone
Abort ==
    /\ pc = "failed"
    /\ Idle(pc', num_frames', eval_interval', frame', state', action',
            ep_reward', recent_rewards', done', truncated', env_over',
            entry', call', batch', target')
    /\ inserted' = <<>>
    /\ UNCHANGED <<hyper, agent, disk, n_step, n_add>>

----------------------------------------------------------------------------
(* The agent and its callers *)

\* the agent is checked for the densest and the sparsest sync period
InitTrain == Init /\ target_update_freq \in {1, MaxFreq}

\* the training loop alone, on a freshly constructed agent
Next ==
    \/ \E nf \in 0..MaxFrames, ei \in 1..MaxInterval : TrainStart(nf, ei)
    \/ Select
    \/ StepEnv
    \/ Learn
    \/ UpdateSync
    \/ EpisodeEnd
    \/ Evaluate
    \/ Complete

Spec == InitTrain /\ [][Next]_vars

\* the public operations, interleaved with one-frame training calls, on
\* an agent whose buffer holds one transition
InitAgent == InitTrain /\ batch_size = 1 /\ buffer_capacity = 1

NextAgent ==
    \/ \E s \in States, e \in BOOLEAN : PredictAction(s, e)
    \/ Save
    \/ Load
    \/ Construct
    \/ UpdateAgent
    \/ UpdateSync
    \/ TrainStart(1, 1)
    \/ Select
    \/ StepEnv
    \/ Learn
    \/ EpisodeEnd
    \/ Evaluate
    \/ Complete

SpecAgent == InitAgent /\ [][NextAgent]_vars

\* the learner alone: update_agent calls on a freshly constructed agent
NextLearner == UpdateAgent \/ UpdateSync

SpecLearner == Init /\ [][NextLearner]_vars

\* one update_agent call on a given batch, its locals kept in view; the
\* agent has made two updates and its target network lags a step behind
Gammas == {0, 50, GammaDefault}

InitTD ==
    /\ batch_size \in 1..MaxBatch
    /\ target_update_freq = 2
    /\ buffer_capacity = MaxCap
    /\ gamma \in Gammas
    /\ q \in Params
    /\ target_q \in Params
    /\ optimizer = 2
    /\ total_steps = 2
    /\ buffer = <<>>
    /\ frame_history = <<>>
    /\ mean_reward_history = <<>>
    /\ disk = NoFile
    /\ Idle(pc, num_frames, eval_interval, frame, state, action, ep_reward,
            recent_rewards, done, truncated, env_over, entry, call, <<>>,
            target)
    /\ batch \in [1..batch_size -> Transitions]
    /\ n_step = 0
    /\ n_add = 0
    /\ inserted = <<>>

NextTD == UpdateBatch \/ UpdateSync

SpecTD == InitTD /\ [][NextTD]_vars

\* the running call proceeds: execution is single-threaded and synchronous
Running == Select \/ StepEnv \/ Learn \/ UpdateSync \/ EpisodeEnd
              \/ Evaluate \/ Complete

\* termination is checked for a buffer of one transition, synced at every
\* update: batch_size 1 learns in every frame, a larger one never
FairInit == Init /\ target_update_freq = 1 /\ buffer_capacity = 1

FairSpec == FairInit /\ [][Next]_vars /\ WF_vars(Running)

\* training calls interleaved with predict_action, save and load, on the
\* agent of FairInit
NextOps ==
    \/ Next
    \/ \E s \in States, e \in BOOLEAN : PredictAction(s, e)
    \/ Save
    \/ Load

SpecOps == FairInit /\ [][NextOps]_vars

\* the training loop with collaborators that may raise
NextFail == Next \/ Raise \/ Abort

SpecFail == FairInit /\ [][NextFail]_vars

----------------------------------------------------------------------------
(* Properties *)

InTrain == pc \in {"select", "step", "learn", "episode", "eval", "complete"}
              \/ (pc = "sync" /\ frame > 0)

\* C1: from a fresh agent, once exactly target_update_freq update_agent
\* calls have returned, the target parameters equal the online parameters
\* (target_q # InitParam: the first update moved the online parameters away
\* from their initial value before they were copied).
C1_SyncedAfterFreqUpdates ==
    (pc = "idle" /\ total_steps = target_update_freq /\ target_q # InitParam)
        => target_q = q

C3_TargetIsSnapshot ==
    [][/\ target_q' # target_q => (target_q' = q' /\ pc \in {"sync", "idle"})
       /\ (pc' = "sync" /\ q' # q) => target_q' = target_q]_vars

C3_Witness ==
    /\ pc = "idle"
    /\ total_steps = 2
    /\ target_q # InitParam
    /\ target_q # q
    /\ buffer # <<>>

\* C4: train ends, and when it ends it has made exactly num_frames
\* environment steps and num_frames buffer insertions.
C4_FrameBudget ==
    /\ [](pc = "complete" =>
            /\ n_step - entry.n_step = num_frames
            /\ n_add - entry.n_add = num_frames)
    /\ (InTrain ~> pc = "idle")

C4_Witness ==
    /\ pc = "complete"
    /\ num_frames = 2
    /\ n_step - entry.n_step = 2
    /\ n_add - entry.n_add = 2
    /\ Len(recent_rewards) = 1
    /\ ep_reward = 0

\* C5: in train a learner update follows a frame's insertion if and only if
\* the buffer then holds at least batch_size transitions, so a batch is
\* never sampled from a buffer smaller than batch_size.
C5_LearnIffReady ==
    /\ [][pc = "learn" => ((pc' = "sync") <=> (Len(buffer) >= batch_size))]_vars
    /\ []((pc = "sync" /\ frame > 0) => Len(buffer) >= batch_size)
    /\ []((pc = "episode" /\ Len(buffer) >= batch_size) =>
              total_steps > entry.steps)

C5_Witness ==
    /\ pc = "sync"
    /\ frame = 2
    /\ batch_size = 2
    /\ Len(buffer) = 2
    /\ total_steps = 0

\* C6: every target of a batch is reward + (1 - done) * gamma * (the
\* largest target-network value of the next state); when every done flag
\* of the batch is set, every target is the reward itself (targets are in
\* units of 1/GammaScale).
C6_BootstrappedTarget ==
    (pc = "sync" /\ target # <<>>) =>
        /\ Len(target) = Len(batch)
        /\ \A i \in 1..Len(batch) :
            /\ \E a \in Actions :
                /\ \A b \in Actions :
                       QVal(target_q, batch[i].next_state, b)
                           <= QVal(target_q, batch[i].next_state, a)
                /\ target[i] =
                       GammaScale * batch[i].reward
                         + (IF batch[i].done THEN 0
                            ELSE gamma * QVal(target_q, batch[i].next_state, a))
            /\ (\A j \in 1..Len(batch) : batch[j].done) =>
                   target[i] = GammaScale * batch[i].reward

C6_Witness ==
    /\ pc = "sync"
    /\ Len(batch) = 2
    /\ \A j \in 1..Len(batch) : batch[j].done
    /\ gamma = GammaDefault
    /\ MaxQ(target_q, batch[1].next_state) > 0
    /\ batch[1].reward = 1
    /\ target[1] = GammaScale

\* C7: the mean appended at a checkpoint is the arithmetic mean of the most
\* recent eval_interval completed-episode rewards of the call (of all of
\* them when fewer have completed), and 0 when none has completed; the
\* running episode's reward is not part of it.
C7_MeanOfRecentEpisodes ==
    [][(pc = "eval" /\ frame % eval_interval = 0) =>
          LET n == Len(recent_rewards)
              k == IF n < eval_interval THEN n ELSE eval_interval
              window == [i \in 1..k |-> recent_rewards[n - k + i]]
              m == mean_reward_history'[Len(mean_reward_history')]
          IN  /\ Len(mean_reward_history') = Len(mean_reward_history) + 1
              /\ m.den > 0
              /\ IF n = 0
                 THEN m.num = 0
                 ELSE m.num * k = Sum(window) * m.den]_vars

C7_Witness ==
    /\ pc = "complete"
    /\ frame % eval_interval = 0
    /\ Len(recent_rewards) > eval_interval
    /\ mean_reward_history[Len(mean_reward_history)] # Mean(recent_rewards)
    /\ mean_reward_history[Len(mean_reward_history)] # Zero

\* C8: a predict_action call, with either value of evaluate, leaves
\* total_steps, both networks' parameters, the optimizer state, the replay
\* buffer and both history lists as they were.
C8_PredictChangesNothing ==
    [][(call' # call /\ call'.op = "predict") =>
          UNCHANGED <<total_steps, q, target_q, optimizer, buffer,
                      frame_history, mean_reward_history>>]_vars

C8_Witness ==
    /\ pc = "idle"
    /\ call.op = "predict"
    /\ call.evaluate
    /\ total_steps > 0
    /\ buffer # <<>>
    /\ frame_history # <<>>

\* C9: a greedy call returns an index of a maximal online value of the
\* state; a second greedy call on the same state with the same online
\* parameters returns the same action; and no draw, nor the value of
\* epsilon, gives a greedy call a second possible result.
C9_GreedyDeterministic ==
    /\ [][(call'.op = "predict" /\ call'.evaluate) =>
             /\ \A b \in Actions :
                    QVal(q', call'.state, b)
                        <= QVal(q', call'.state, call'.action)
             /\ (call.op = "predict" /\ call.evaluate
                   /\ call.state = call'.state /\ q' = q) =>
                    call'.action = call.action]_vars
    /\ [](\A s \in States : Cardinality(Selectable(s, TRUE)) = 1)

C9_Witness ==
    /\ call.op = "predict"
    /\ call.evaluate
    /\ call.action = 1
    /\ Epsilon(total_steps) = EpsScale

\* C10: save writes the saving agent's online parameters and optimizer
\* state and changes nothing in that agent; load makes the loading agent's
\* online parameters and optimizer state those of the checkpoint.
C10_SaveLoadRoundTrip ==
    [][/\ (call' # call /\ call'.op = "save") =>
            /\ disk' = [parameters |-> q, optimizer |-> optimizer]
            /\ UNCHANGED agent
       /\ (call' # call /\ call'.op = "load") =>
            /\ q' = disk.parameters
            /\ optimizer' = disk.optimizer
            /\ disk' = disk]_vars

\* a freshly constructed agent has loaded the checkpoint of a trained one
C10_Witness ==
    /\ call.op = "load"
    /\ total_steps = 0
    /\ buffer = <<>>
    /\ q # InitParam
    /\ optimizer = 2
    /\ disk = [parameters |-> q, optimizer |-> optimizer]

\* C11: epsilon depends on total_steps alone; it is epsilon_start at
\* total_steps = 0, lies between epsilon_final and epsilon_start for every
\* total_steps, does not grow with total_steps, and does not grow along a
\* run of the agent.
C11_EpsilonSchedule ==
    /\ [](/\ Epsilon(0) = epsilon_start
          /\ \A t \in 0..MaxSteps :
                /\ epsilon_final <= Epsilon(t)
                /\ Epsilon(t) <= epsilon_start
                /\ \A u \in 0..t : Epsilon(t) <= Epsilon(u)
          /\ epsilon_final <= Epsilon(total_steps)
          /\ Epsilon(total_steps) <= epsilon_start)
    /\ [][Epsilon(total_steps') <= Epsilon(total_steps)]_vars

C11_Witness ==
    /\ pc = "complete"
    /\ Epsilon(entry.steps) = epsilon_start
    /\ total_steps = 2
    /\ Epsilon(1) < epsilon_start
    /\ Epsilon(1) > epsilon_final
    /\ Epsilon(total_steps) = epsilon_final

C13_ErrorAborts ==
    /\ [](call.op = "raise" => pc = "failed")
    /\ [](pc = "failed" =>
            /\ Len(frame_history) - entry.hist = (frame - 1) \div eval_interval
            /\ Len(mean_reward_history) = Len(frame_history)
            /\ \A i \in (entry.hist + 1)..Len(frame_history) :
                   frame_history[i] < frame)
    /\ [][pc' = "failed" => UNCHANGED <<agent, disk, n_step, n_add>>]_vars
    /\ [][pc = "failed" =>
            /\ pc' = "idle"
            /\ UNCHANGED <<agent, disk, n_step, n_add>>]_vars

\* env.step raised in frame 2, after the checkpoint of frame 1
C13_Witness ==
    /\ pc = "failed"
    /\ frame = 2
    /\ eval_interval = 1
    /\ n_step - entry.n_step = 1
    /\ frame_history = <<1>>
    /\ total_steps = 1

\* C14: the tail of every update_agent call increments total_steps and then
\* copies the online parameters into the target network exactly when the
\* incremented total_steps is a multiple of target_update_freq (so the
\* first update of a fresh agent copies nothing when target_update_freq > 1).
C14_IncrementThenSync ==
    [][pc = "sync" =>
          /\ total_steps' = total_steps + 1
          /\ target_q' = IF total_steps' % target_update_freq = 0
                         THEN q ELSE target_q]_vars

\* C15: when the environment step of a frame reports done or truncated,
\* the episode's reward is appended once to recent_rewards, ep_reward
\* returns to 0 and the environment is reset; no environment step is made
\* on an ended episode, and the transition stored next starts from the
\* state of that reset.
C15_EpisodeEnd ==
    /\ [](pc = "step" => ~env_over)
    /\ [](pc \in {"eval", "select", "step", "complete"} =>
            /\ Len(recent_rewards) =
                   Cardinality({i \in 1..Len(inserted) : inserted[i].done})
            /\ Sum(recent_rewards) + ep_reward =
                   Sum([i \in 1..Len(inserted) |-> inserted[i].reward]))
    /\ [][/\ (pc = "episode" /\ (done \/ truncated)) =>
               /\ recent_rewards' = Append(recent_rewards, ep_reward)
               /\ ep_reward' = 0
               /\ state' = EnvReset
               /\ ~env_over'
          /\ (pc = "episode" /\ ~(done \/ truncated)) =>
               UNCHANGED <<recent_rewards, ep_reward, state, env_over>>
          /\ (pc \in {"select", "step", "learn", "sync", "eval"}) =>
               recent_rewards' = recent_rewards
          /\ (pc = "step" /\ frame > 1 /\ (done \/ truncated)) =>
               inserted'[Len(inserted')].state = EnvReset]_vars

\* the first episode ran into the time limit; frame 2 starts the next one
C15_Witness ==
    /\ pc = "learn"
    /\ frame = 2
    /\ inserted[1].done
    /\ inserted[1].next_state # EnvReset
    /\ inserted[2].state = EnvReset
    /\ recent_rewards = <<1>>
    /\ ep_reward = 1

C17_StepsCountUpdates ==
    /\ [](total_steps = IF pc = "sync" THEN optimizer - 1 ELSE optimizer)
    /\ [][/\ total_steps' >= total_steps
          /\ total_steps' # total_steps =>
                 (pc = "sync" /\ total_steps' = total_steps + 1)]_vars
    /\ []((pc = "complete" /\ entry.steps = 0 /\ entry.n_add = 0
             /\ buffer_capacity >= batch_size) =>
              total_steps = Max2(0, num_frames - batch_size + 1))
    /\ []((InTrain /\ entry.steps = 0 /\ entry.n_add = 0
             /\ frame <= batch_size - 1) =>
              /\ total_steps = 0
              /\ Epsilon(total_steps) = epsilon_start)
    /\ [](buffer_capacity < batch_size => total_steps = 0)

C17_Witness ==
    /\ pc = "complete"
    /\ entry.steps = 0
    /\ entry.n_add = 0
    /\ batch_size = 2
    /\ buffer_capacity = 2
    /\ num_frames = 2
    /\ n_step = 2
    /\ total_steps = 1

\* C18: the done flag of the transition stored in a frame is true exactly
\* when the environment step reported done or truncated; whatever the
\* target parameters, the target of that transition is its reward alone
\* when the step reported done or truncated (truncation alone included),
\* and has the bootstrap term otherwise.
C18_StoredDone ==
    /\ [][pc = "step" =>
             /\ buffer'[Len(buffer')].done = (done' \/ truncated')
             /\ buffer'[Len(buffer')].reward = ep_reward' - ep_reward
             /\ buffer'[Len(buffer')].next_state = state']_vars
    /\ [][pc = "step" =>
             LET t == buffer'[Len(buffer')]
             IN  \A p \in Params :
                     TDTarget(<<t>>, p, gamma)[1] =
                         IF done' \/ truncated'
                         THEN GammaScale * t.reward
                         ELSE GammaScale * t.reward
                                + gamma * MaxQ(p, t.next_state)]_vars

\* a frame ended by the time limit alone, with a next state of value > 0
C18_Witness ==
    /\ pc = "learn"
    /\ truncated
    /\ ~done
    /\ buffer[Len(buffer)].done
    /\ buffer[Len(buffer)].next_state = state
    /\ MaxQ(target_q, state) > 0
    /\ TDTarget(<<buffer[Len(buffer)]>>, target_q, gamma)[1] = GammaScale

\* C19: a frame of train selects the action, steps the environment and
\* stores the transition, learns, books an ended episode and writes the
\* checkpoint, in this order: when the frame's batch is sampled the frame's
\* transition is the newest of the buffer, and the mean of a checkpoint
\* whose frame ended an episode counts that episode.
C19_FrameOrder ==
    /\ [][pc' # pc =>
             <<pc, pc'>> \in
                 {<<"idle", "select">>, <<"idle", "complete">>,
                  <<"select", "step">>, <<"step", "learn">>,
                  <<"learn", "sync">>, <<"learn", "episode">>,
                  <<"sync", "episode">>, <<"episode", "eval">>,
                  <<"eval", "select">>, <<"eval", "complete">>,
                  <<"complete", "idle">>}]_vars
    /\ [](pc \in {"select", "step"} => Len(inserted) = frame - 1)
    /\ [](pc \in {"learn", "sync", "episode", "eval"} =>
            /\ Len(inserted) = frame
            /\ buffer[Len(buffer)] = inserted[frame]
            /\ inserted[frame].action = action)
    /\ [][(pc = "eval" /\ frame % eval_interval = 0
             /\ inserted[frame].done) =>
             /\ Len(recent_rewards) =
                    Cardinality({i \in 1..frame : inserted[i].done})
             /\ ep_reward = 0
             /\ mean_reward_history'[Len(mean_reward_history')] =
                    Mean(LastK(recent_rewards, eval_interval))]_vars

\* frame 2 stored its transition, learned from it, ended the only episode
\* and wrote the checkpoint that reports the episode's reward of 2
C19_Witness ==
    /\ pc = "complete"
    /\ frame = 2
    /\ eval_interval = 2
    /\ batch_size = 2
    /\ total_steps = 1
    /\ inserted[2].done
    /\ ~inserted[1].done
    /\ frame_history = <<2>>
    /\ mean_reward_history = <<[num |-> 2, den |-> 1]>>

\* C20: a load writes the online parameters and the optimizer state and
\* nothing else of the agent: the target parameters, total_steps, the
\* buffer, both history lists and the hyperparameters stay; after it the
\* target network may differ from the online one.
C20_LoadFrame ==
    [][(call' # call /\ call'.op = "load") =>
          /\ UNCHANGED <<target_q, total_steps, buffer, frame_history,
                         mean_reward_history, hyper>>
          /\ q' = disk.parameters
          /\ optimizer' = disk.optimizer]_vars

\* a trained and synced agent has loaded an older checkpoint: its target
\* network still holds the trained parameters
C20_Witness ==
    /\ call.op = "load"
    /\ total_steps > 0
    /\ buffer # <<>>
    /\ frame_history # <<>>
    /\ q = disk.parameters
    /\ optimizer = disk.optimizer
    /\ optimizer # total_steps
    /\ target_q # q

====
